---- MODULE Spec2Model ----
(***************************************************************************)
(* Model of packages/server/src/crypto-native/src/lib.rs: nine functions   *)
(* exported to JavaScript, each taking and returning byte buffers.         *)
(*                                                                         *)
(* A buffer is [len, data]: len is its length in bytes (the real lengths   *)
(* 32, 12, 64, 16 are kept), data its content read as one number.  The     *)
(* library primitives the functions call (X25519, Ed25519, AES-GCM, HKDF,  *)
(* PBKDF2) are small arithmetic stand-ins with the structure of the real   *)
(* ones: exponentiation in a prime-order subgroup, a Schnorr signature, a  *)
(* keystream cipher with an appended tag, iterated pseudo-random           *)
(* functions.  Hashes and the tag are collision-free on the bounded        *)
(* domain.                                                                 *)
(*                                                                         *)
(* The state is what callers can observe: the set of completed calls       *)
(* (operation, arguments, outcome) and the calls in flight on each thread. *)
(***************************************************************************)
EXTENDS Integers, Naturals, Sequences, FiniteSets, TLC

VARIABLES calls, frame

vars == <<calls, frame>>

(***************************************************************************)
(* JavaScript values and outcomes of a call.                               *)
(***************************************************************************)
Buf(n, d) == [len |-> n, data |-> d]

Num(n) == [num |-> n]

Ok(v) == [kind |-> "ok", val |-> v]

\* cx.throw_error(msg): a JavaScript exception the caller can catch.
Throw(m) == [kind |-> "error", msg |-> m]

\* A Rust panic inside the native function.
Panic(m) == [kind |-> "panic", msg |-> m]

Call(o, a, r) == [op |-> o, args |-> a, out |-> r]

Done(o) == {c \in calls : c.op = o}

Succeeded(o) == {c \in Done(o) : c.out.kind = "ok"}

(***************************************************************************)
(* The group the curve operations are modelled in: the subgroup of order   *)
(* GroupOrder of the integers modulo GroupPrime, generated by BasePoint.   *)
(***************************************************************************)
GroupPrime == 47

GroupOrder == 23

BasePoint == 2

RECURSIVE PowMod(_, _, _)
PowMod(b, e, m) == IF e = 0 THEN 1 % m ELSE (b * PowMod(b, e - 1, m)) % m

\* x25519_dalek clamps the secret bytes into a non-zero scalar.
Clamp(s) == 1 + (s % (GroupOrder - 1))

\* PublicKey::from(&secret)
X25519PublicKey(s) == PowMod(BasePoint, Clamp(s), GroupPrime)

\* secret.diffie_hellman(&public)
diffie_hellman(s, pub) == PowMod(pub, Clamp(s), GroupPrime)

(***************************************************************************)
(* generate_x25519_keypair: the secret is drawn by the random source.      *)
(***************************************************************************)
\* Faulty variant: the exported secretKey is not the scalar the public key was made of.
generate_x25519_keypair_ExportsOtherSecret(secret) ==
    Ok([secretKey |-> Buf(32, secret + 1),
        publicKey |-> Buf(32, X25519PublicKey(secret))])

generate_x25519_keypair(secret) ==
    Ok([secretKey |-> Buf(32, secret),
        publicKey |-> Buf(32, X25519PublicKey(secret))])

(***************************************************************************)
(* x25519_ecdh(secret, public)                                             *)
(***************************************************************************)
x25519_ecdh(args) ==
    LET secret_buffer == args[1]
        public_buffer == args[2]
    IN  IF secret_buffer.len # 32 THEN Panic("copy_from_slice")
        ELSE IF public_buffer.len # 32 THEN Panic("copy_from_slice")
        ELSE Ok(Buf(32, diffie_hellman(secret_buffer.data, public_buffer.data)))

(***************************************************************************)
(* Key agreement: callers generate key pairs and exchange public keys.     *)
(***************************************************************************)
MaxDhCalls == 4

SecretSeeds == {0, 1, 5, 30}

Threads == {1, 2}

Idle == [op |-> "idle"]

Init == calls = {} /\ frame = [t \in Threads |-> Idle]

GenerateX25519Keypair ==
    /\ Cardinality(calls) < MaxDhCalls
    /\ \E s \in SecretSeeds :
          calls' = calls \cup {Call("generateX25519Keypair", <<>>,
                                    generate_x25519_keypair(s))}
    /\ UNCHANGED frame

X25519Ecdh ==
    /\ Cardinality(calls) < MaxDhCalls
    /\ \E a, b \in Succeeded("generateX25519Keypair") :
          LET args == <<a.out.val.secretKey, b.out.val.publicKey>>
          IN  calls' = calls \cup {Call("x25519Ecdh", args, x25519_ecdh(args))}
    /\ UNCHANGED frame

NextDh == GenerateX25519Keypair \/ X25519Ecdh

SpecDh == Init /\ [][NextDh]_vars

\* C9: two parties who generate key pairs and run x25519Ecdh with their own
\* secret key and the other's public key obtain the same 32-byte secret.
C9_SharedSecretSymmetry ==
    \A a, b \in Succeeded("generateX25519Keypair") :
      \A x, y \in Done("x25519Ecdh") :
        (/\ x.args = <<a.out.val.secretKey, b.out.val.publicKey>>
         /\ y.args = <<b.out.val.secretKey, a.out.val.publicKey>>)
        => /\ x.out.kind = "ok"
           /\ y.out = x.out
           /\ x.out.val.len = 32

C9_Witness ==
    \E a, b \in Succeeded("generateX25519Keypair") :
      \E x, y \in Done("x25519Ecdh") :
        /\ a.out.val.secretKey # b.out.val.secretKey
        /\ a.out.val.publicKey # b.out.val.publicKey
        /\ x.args = <<a.out.val.secretKey, b.out.val.publicKey>>
        /\ y.args = <<b.out.val.secretKey, a.out.val.publicKey>>
        /\ x.out.kind = "ok"

(***************************************************************************)
(* AES-256-GCM as the aes_gcm crate provides it: the message is combined   *)
(* with a keystream derived from key and nonce, and a tag over key, nonce, *)
(* associated data and ciphertext body is appended.                        *)
(***************************************************************************)
DataSpace == 4

\* Length of the tag the AEAD appends.
TagLen == 16

\* The space the appended tag is read in (the tag is the low part of the
\* ciphertext's content, the body the high part).
TagSpace == 1048576

\* An injective pairing of naturals.
Pair(a, b) == ((a + b) * (a + b + 1)) \div 2 + b

BufCode(b) == Pair(b.len, b.data)

KeyStream(key, nonce) == (1 + key.data + 2 * nonce.data) % DataSpace

\* Valid tags are even: flipping the low bit of a tag never yields the tag of
\* other input (unforgeability on the bounded domain).
GcmTag(key, nonce, aad, body, n) ==
    (2 * Pair(Pair(Pair(key.data, nonce.data), Pair(body, n)), BufCode(aad)))
        % TagSpace

\* Payload { msg, aad } with no associated data.
EmptyAad == Buf(0, 0)

\* cipher.encrypt(nonce, Payload { msg, aad })
AesGcmEncrypt(key, nonce, msg, aad) ==
    LET body == IF msg.len = 0 THEN 0
                ELSE (msg.data + KeyStream(key, nonce)) % DataSpace
    IN  Buf(msg.len + TagLen,
            body * TagSpace + GcmTag(key, nonce, aad, body, msg.len))

\* cipher.decrypt(nonce, Payload { msg, aad }): Err unless the buffer holds a
\* tag and the tag is the one computed over the body; the message otherwise.
AesGcmDecrypt(key, nonce, ct, aad) ==
    IF ct.len < TagLen THEN [ok |-> FALSE, msg |-> Buf(0, 0)]
    ELSE LET body == ct.data \div TagSpace
             tag  == ct.data % TagSpace
             n    == ct.len - TagLen
             data == IF n = 0 THEN 0
                     ELSE (body + DataSpace - KeyStream(key, nonce)) % DataSpace
         IN  IF /\ tag = GcmTag(key, nonce, aad, body, n)
                /\ body < DataSpace
                /\ (n = 0 => body = 0)
             THEN [ok |-> TRUE, msg |-> Buf(n, data)]
             ELSE [ok |-> FALSE, msg |-> Buf(0, 0)]

(***************************************************************************)
(* aes_encrypt(key, nonce, plaintext, aad)                                 *)
(***************************************************************************)
\* Faulty variant: the associated data is bound on encryption only.
aes_encrypt_BindsAad(args) ==
    IF args[1].len # 32 THEN Panic("copy_from_slice")
    ELSE IF args[2].len # 12 THEN Panic("copy_from_slice")
    ELSE Ok([ciphertext |-> AesGcmEncrypt(args[1], args[2], args[3], args[4])])

aes_encrypt(args) ==
    LET key_buffer       == args[1]
        nonce_buffer     == args[2]
        plaintext_buffer == args[3]
        aad_buffer       == args[4]
    IN  IF key_buffer.len # 32 THEN Panic("copy_from_slice")
        ELSE IF nonce_buffer.len # 12 THEN Panic("copy_from_slice")
        ELSE Ok([ciphertext |->
                   AesGcmEncrypt(key_buffer, nonce_buffer, plaintext_buffer,
                                 EmptyAad)])

(***************************************************************************)
(* aes_decrypt(key, nonce, ciphertext, aad)                                *)
(***************************************************************************)
\* Faulty variant: a failed decryption yields an empty buffer instead of an error.
aes_decrypt_SwallowsFailure(args) ==
    IF args[1].len # 32 THEN Panic("copy_from_slice")
    ELSE IF args[2].len # 12 THEN Panic("copy_from_slice")
    ELSE Ok(AesGcmDecrypt(args[1], args[2], args[3], EmptyAad).msg)

aes_decrypt(args) ==
    LET key_buffer        == args[1]
        nonce_buffer      == args[2]
        ciphertext_buffer == args[3]
        aad_buffer        == args[4]
    IN  IF key_buffer.len # 32 THEN Panic("copy_from_slice")
        ELSE IF nonce_buffer.len # 12 THEN Panic("copy_from_slice")
        ELSE LET plaintext == AesGcmDecrypt(key_buffer, nonce_buffer,
                                            ciphertext_buffer, EmptyAad)
             IN  IF plaintext.ok THEN Ok(plaintext.msg)
                 ELSE Throw("Decryption failed")

(***************************************************************************)
(* Encryption and decryption: callers encrypt, then decrypt what they      *)
(* received, which may have been altered on the way.                       *)
(***************************************************************************)
MaxAesCalls == 3

Keys == {Buf(32, 0), Buf(32, 1)}

Nonces == {Buf(12, 0), Buf(12, 1)}

Plaintexts == {Buf(0, 0), Buf(1, 1), Buf(2, 3)}

Aads == {Buf(0, 0), Buf(1, 1)}

FlipLowBit(n) == IF n % 2 = 0 THEN n + 1 ELSE n - 1

\* A ciphertext with one bit of the tag flipped, one bit of the body flipped,
\* or its last byte cut off.
Tampered(ct) ==
    {Buf(ct.len, FlipLowBit(ct.data)), Buf(ct.len - 1, ct.data \div 2)}
    \cup (IF ct.len > TagLen
          THEN {Buf(ct.len, (FlipLowBit(ct.data \div TagSpace) * TagSpace)
                            + (ct.data % TagSpace))}
          ELSE {})

Ciphertexts ==
    LET made == {e.out.val.ciphertext : e \in Succeeded("aesEncrypt")}
    IN  made \cup UNION {Tampered(ct) : ct \in made} \cup {Buf(0, 0)}

AesEncrypt ==
    /\ Cardinality(calls) < MaxAesCalls
    /\ \E k \in Keys, n \in Nonces, p \in Plaintexts, a \in Aads :
          calls' = calls \cup {Call("aesEncrypt", <<k, n, p, a>>,
                                    aes_encrypt(<<k, n, p, a>>))}
    /\ UNCHANGED frame

AesDecrypt ==
    /\ Cardinality(calls) < MaxAesCalls
    /\ \E k \in Keys, n \in Nonces, c \in Ciphertexts, a \in Aads :
          calls' = calls \cup {Call("aesDecrypt", <<k, n, c, a>>,
                                    aes_decrypt(<<k, n, c, a>>))}
    /\ UNCHANGED frame

NextAes == AesEncrypt \/ AesDecrypt

SpecAes == Init /\ [][NextAes]_vars

\* The error kinds of the specification, as the messages the code throws.
AuthenticationFailed == "Decryption failed"

\* C3: decrypting an aesEncrypt result with the same key and nonce but other
\* associated data fails with AuthenticationFailed.
C3_AadBound ==
    \A e \in Succeeded("aesEncrypt") : \A d \in Done("aesDecrypt") :
        (/\ d.args[1] = e.args[1]
         /\ d.args[2] = e.args[2]
         /\ d.args[3] = e.out.val.ciphertext
         /\ d.args[4] # e.args[4])
        => d.out = Throw(AuthenticationFailed)

\* C4: decrypting an aesEncrypt result with the same key, nonce and
\* associated data succeeds and returns exactly the plaintext.
C4_RoundTrip ==
    \A e \in Done("aesEncrypt") :
        /\ e.out.kind = "ok"
        /\ e.out.val.ciphertext.len = e.args[3].len + 16
        /\ \A d \in Done("aesDecrypt") :
              (/\ d.args[1] = e.args[1]
               /\ d.args[2] = e.args[2]
               /\ d.args[3] = e.out.val.ciphertext
               /\ d.args[4] = e.args[4])
              => d.out = Ok(e.args[3])

C4_Witness ==
    \E e \in Succeeded("aesEncrypt") : \E d \in Done("aesDecrypt") :
        /\ d.args = <<e.args[1], e.args[2], e.out.val.ciphertext, e.args[4]>>
        /\ e.args[3].len > 0
        /\ e.args[4].len > 0
        /\ e.out.val.ciphertext.data \div TagSpace # e.args[3].data

\* C5: a decryption whose key, nonce or ciphertext (body or tag) is not the
\* one of the encryption the ciphertext came from, or whose ciphertext is too
\* short to hold a tag, fails with AuthenticationFailed and returns nothing.
C5_AllOrNothing ==
    \A d \in Done("aesDecrypt") :
        /\ d.args[3].len < 16 => d.out = Throw(AuthenticationFailed)
        /\ \A e \in Succeeded("aesEncrypt") :
              (/\ d.args[3] \in {e.out.val.ciphertext}
                                  \cup Tampered(e.out.val.ciphertext)
               /\ \/ d.args[1] # e.args[1]
                  \/ d.args[2] # e.args[2]
                  \/ d.args[3] # e.out.val.ciphertext)
              => d.out = Throw(AuthenticationFailed)

C5_Witness ==
    \E e \in Succeeded("aesEncrypt") : \E d1, d2 \in Done("aesDecrypt") :
        /\ e.args[3].len > 0
        /\ d1.args = <<e.args[1], e.args[2],
                       Buf(e.out.val.ciphertext.len,
                           FlipLowBit(e.out.val.ciphertext.data)), e.args[4]>>
        /\ d1.out.kind = "error"
        /\ d2.args[1] # e.args[1]
        /\ d2.args[3] = e.out.val.ciphertext
        /\ d2.out.kind = "error"

(***************************************************************************)
(* Ed25519 as ed25519_dalek provides it: a Schnorr signature over the      *)
(* group above.  A 64-byte buffer holds two 32-byte halves; its content is *)
(* high * HalfSpace + low.                                                 *)
(***************************************************************************)
HalfSpace == 64

HighHalf(b) == b.data \div HalfSpace

LowHalf(b) == b.data % HalfSpace

\* ExpandedSecretKey::from(&secret): the clamped scalar and the hash prefix.
ExpandedScalar(seed) == 1 + (seed % (GroupOrder - 1))

ExpandedPrefix(seed) == 3 * seed + 1

\* PublicKey::from(&secret)
Ed25519PublicKey(seed) == PowMod(BasePoint, ExpandedScalar(seed), GroupPrime)

\* CompressedEdwardsY::decompress: the bytes encode a point of the group.
IsPoint(y) == y < GroupPrime /\ PowMod(y, GroupOrder, GroupPrime) = 1

\* ed25519_dalek::PublicKey::from_bytes succeeds.
PublicKeyFromBytesOk(b) == IsPoint(b.data)

\* Keypair::from_bytes succeeds: the secret half is any 32 bytes, the public
\* half must decode; the two halves are not checked against each other.
KeypairFromBytesOk(b) == IsPoint(LowHalf(b))

\* Signature::from_bytes succeeds: the scalar half is reduced.
SignatureFromBytesOk(b) == LowHalf(b) < GroupOrder

\* The hashes of the scheme, collision-free in the message on the domain.
HashR(prefix, m) == (prefix + 5 * BufCode(m)) % GroupOrder

HashK(R, A, m) == (R + 2 * A + BufCode(m)) % GroupOrder

\* keypair.sign(&message), with the public half as stored in the key pair.
Ed25519Sign(kp, m) ==
    LET seed == HighHalf(kp)
        A    == LowHalf(kp)
        r    == HashR(ExpandedPrefix(seed), m)
        R    == PowMod(BasePoint, r, GroupPrime)
        k    == HashK(R, A, m)
        s    == (r + k * ExpandedScalar(seed)) % GroupOrder
    IN  R * HalfSpace + s

\* public_key.verify(&message, &signature).is_ok()
Ed25519Verify(pk, m, sig) ==
    LET R == HighHalf(sig)
        s == LowHalf(sig)
        k == HashK(R, pk.data, m)
    IN  PowMod(BasePoint, s, GroupPrime)
          = (R * PowMod(pk.data, k, GroupPrime)) % GroupPrime

(***************************************************************************)
(* generate_ed25519_keypair: the seed is drawn by the random source.       *)
(***************************************************************************)
generate_ed25519_keypair(seed) ==
    Ok([secretKey |-> Buf(64, seed * HalfSpace + Ed25519PublicKey(seed)),
        publicKey |-> Buf(32, Ed25519PublicKey(seed))])

(***************************************************************************)
(* ed25519_sign(keypair, message)                                          *)
(***************************************************************************)
\* Faulty variant: the result buffer is returned without the signature copied in.
ed25519_sign_ReturnsZeroes(args) ==
    IF args[1].len # 64 THEN Panic("copy_from_slice")
    ELSE IF ~KeypairFromBytesOk(args[1]) THEN Throw("Invalid keypair")
    ELSE Ok(Buf(64, 0))

ed25519_sign(args) ==
    LET keypair_buffer == args[1]
        message_buffer == args[2]
    IN  IF keypair_buffer.len # 64 THEN Panic("copy_from_slice")
        ELSE IF ~KeypairFromBytesOk(keypair_buffer)
             THEN Throw("Invalid keypair")
        ELSE Ok(Buf(64, Ed25519Sign(keypair_buffer, message_buffer)))

(***************************************************************************)
(* ed25519_verify(publicKey, message, signature)                           *)
(***************************************************************************)
Bool(b) == [bool |-> b]

\* Faulty variant: a malformed signature is reported as a failed verification.
ed25519_verify_CollapsesMalformed(args) ==
    IF args[1].len # 32 THEN Panic("copy_from_slice")
    ELSE IF args[3].len # 64 THEN Panic("copy_from_slice")
    ELSE IF ~PublicKeyFromBytesOk(args[1]) THEN Throw("Invalid public key")
    ELSE Ok(Bool(/\ SignatureFromBytesOk(args[3])
                 /\ Ed25519Verify(args[1], args[2], args[3])))

ed25519_verify(args) ==
    LET public_key_buffer == args[1]
        message_buffer    == args[2]
        signature_buffer  == args[3]
    IN  IF public_key_buffer.len # 32 THEN Panic("copy_from_slice")
        ELSE IF signature_buffer.len # 64 THEN Panic("copy_from_slice")
        ELSE IF ~PublicKeyFromBytesOk(public_key_buffer)
             THEN Throw("Invalid public key")
        ELSE IF ~SignatureFromBytesOk(signature_buffer)
             THEN Throw("Invalid signature")
        ELSE Ok(Bool(Ed25519Verify(public_key_buffer, message_buffer,
                                   signature_buffer)))

(***************************************************************************)
(* Signatures: callers generate key pairs, sign, and verify what they      *)
(* received, well-formed or not.                                           *)
(***************************************************************************)
MaxSigCalls == 4

SigningSeeds == {0, 7}

Messages == {Buf(0, 0), Buf(1, 0), Buf(1, 1)}

\* Buffers of the right length that no call produced.
ForeignPublicKeys == {Buf(32, 3), Buf(32, 5)}

ForeignSignatures == {Buf(64, 0), Buf(64, 2 * HalfSpace + 40)}

PublicKeys ==
    {g.out.val.publicKey : g \in Succeeded("generateEd25519Keypair")}
    \cup ForeignPublicKeys

Keypairs ==
    {g.out.val.secretKey : g \in Succeeded("generateEd25519Keypair")}
    \cup {Buf(64, 5)}

Signatures ==
    {s.out.val : s \in Succeeded("ed25519Sign")} \cup ForeignSignatures

GenerateEd25519Keypair ==
    /\ Cardinality(calls) < MaxSigCalls
    /\ \E s \in SigningSeeds :
          calls' = calls \cup {Call("generateEd25519Keypair", <<>>,
                                    generate_ed25519_keypair(s))}
    /\ UNCHANGED frame

Ed25519SignCall ==
    /\ Cardinality(calls) < MaxSigCalls
    /\ \E kp \in Keypairs, m \in Messages :
          calls' = calls \cup {Call("ed25519Sign", <<kp, m>>,
                                    ed25519_sign(<<kp, m>>))}
    /\ UNCHANGED frame

Ed25519VerifyCall ==
    /\ Cardinality(calls) < MaxSigCalls
    /\ \E pk \in PublicKeys, m \in Messages, sig \in Signatures :
          calls' = calls \cup {Call("ed25519Verify", <<pk, m, sig>>,
                                    ed25519_verify(<<pk, m, sig>>))}
    /\ UNCHANGED frame

NextSig == GenerateEd25519Keypair \/ Ed25519SignCall \/ Ed25519VerifyCall

SpecSig == Init /\ [][NextSig]_vars

InvalidKeyEncoding == "Invalid public key"

InvalidSignatureEncoding == "Invalid signature"

\* C6 as stated: a malformed public key yields InvalidKeyEncoding, a
\* malformed signature yields InvalidSignatureEncoding, and well-formed
\* encodings yield a boolean.
C6_MalformedVersusFailed ==
    \A v \in Done("ed25519Verify") :
        /\ ~PublicKeyFromBytesOk(v.args[1])
              => v.out = Throw(InvalidKeyEncoding)
        /\ ~SignatureFromBytesOk(v.args[3])
              => v.out = Throw(InvalidSignatureEncoding)
        /\ (PublicKeyFromBytesOk(v.args[1]) /\ SignatureFromBytesOk(v.args[3]))
              => v.out \in {Ok(Bool(TRUE)), Ok(Bool(FALSE))}

\* C6 amended: a malformed public key yields InvalidKeyEncoding; a malformed
\* signature under a well-formed public key yields InvalidSignatureEncoding;
\* well-formed encodings yield a boolean, never an error.
C6_KeyCheckedFirst ==
    \A v \in Done("ed25519Verify") :
        /\ ~PublicKeyFromBytesOk(v.args[1])
              => v.out = Throw(InvalidKeyEncoding)
        /\ (PublicKeyFromBytesOk(v.args[1]) /\ ~SignatureFromBytesOk(v.args[3]))
              => v.out = Throw(InvalidSignatureEncoding)
        /\ (PublicKeyFromBytesOk(v.args[1]) /\ SignatureFromBytesOk(v.args[3]))
              => v.out \in {Ok(Bool(TRUE)), Ok(Bool(FALSE))}

C6_Witness ==
    \E v1, v2, v3 \in Done("ed25519Verify") :
        /\ ~PublicKeyFromBytesOk(v1.args[1])
        /\ ~SignatureFromBytesOk(v1.args[3])
        /\ v1.out = Throw(InvalidKeyEncoding)
        /\ v2.out = Throw(InvalidSignatureEncoding)
        /\ v3.out = Ok(Bool(FALSE))

\* C7: a signature made by ed25519Sign with a generated key pair verifies
\* under that pair's public key for the signed message, and verification
\* returns false, not an error, for any other message.
C7_SignatureRoundTrip ==
    \A g \in Succeeded("generateEd25519Keypair") :
      \A s \in Done("ed25519Sign") :
        s.args[1] = g.out.val.secretKey =>
          /\ s.out.kind = "ok"
          /\ s.out.val.len = 64
          /\ \A v \in Done("ed25519Verify") :
                (v.args[1] = g.out.val.publicKey /\ v.args[3] = s.out.val)
                => v.out = Ok(Bool(v.args[2] = s.args[2]))

C7_Witness ==
    \E g \in Succeeded("generateEd25519Keypair") :
      \E s \in Succeeded("ed25519Sign") :
        \E v1, v2 \in Done("ed25519Verify") :
          /\ s.args[1] = g.out.val.secretKey
          /\ v1.args = <<g.out.val.publicKey, s.args[2], s.out.val>>
          /\ v1.out = Ok(Bool(TRUE))
          /\ v2.args[1] = g.out.val.publicKey
          /\ v2.args[3] = s.out.val
          /\ v2.args[2] # s.args[2]
          /\ v2.out = Ok(Bool(FALSE))

(***************************************************************************)
(* Numbers passed from JavaScript.  The casts `as usize` and `as u32`      *)
(* saturate.  The width of usize is scaled down to UsizeBits bits; the     *)
(* rules (saturation at the maximum, allocation limit at isize::MAX) are   *)
(* those of every width.                                                   *)
(***************************************************************************)
UsizeBits == 16

UsizeMax == 2 ^ UsizeBits - 1

IsizeMax == 2 ^ (UsizeBits - 1) - 1

AsUsize(n) == IF n < 0 THEN 0 ELSE IF n > UsizeMax THEN UsizeMax ELSE n

\* Iteration counts of the model stay far below u32::MAX.
AsU32(n) == IF n < 0 THEN 0 ELSE n

\* vec![0u8; n] panics with "capacity overflow" beyond isize::MAX bytes.
VecAllocates(n) == n <= IsizeMax

(***************************************************************************)
(* HMAC-SHA-256, HKDF and PBKDF2 stand-ins.  A hash output is 32 bytes,    *)
(* read in HalfSpace.                                                      *)
(***************************************************************************)
HashLen == 32

HkdfMaxBlocks == 255

Hmac(k, x) == (7 * k + 3 * x + 1) % HalfSpace

\* Hkdf::<Sha256>::new(Some(&salt), &ikm): the pseudo-random key.
HkdfExtract(salt, ikm) == Hmac(BufCode(salt), BufCode(ikm))

\* hk.expand(&info, &mut okm) succeeds.
HkdfExpandOk(n) == n <= HkdfMaxBlocks * HashLen

\* The bytes hk.expand writes.
HkdfExpand(prk, info, n) ==
    IF n = 0 THEN 0 ELSE Hmac(prk, Pair(BufCode(info), n)) % DataSpace

RECURSIVE Pbkdf2Sum(_, _, _)
Pbkdf2Sum(pw, u, i) ==
    IF i = 0 THEN 0
    ELSE (Hmac(pw, u) + Pbkdf2Sum(pw, Hmac(pw, u), i - 1)) % HalfSpace

\* pbkdf2::derive(PBKDF2_HMAC_SHA256, iterations, salt, password, out)
Pbkdf2(iterations, salt, password, n) ==
    IF n = 0 THEN 0
    ELSE Pbkdf2Sum(BufCode(password), Pair(BufCode(salt), n), iterations)
           % DataSpace

(***************************************************************************)
(* hkdf_expand(salt, ikm, info, length)                                    *)
(***************************************************************************)
\* Faulty variant: a process-wide count of completed calls is mixed into the output.
hkdf_expand_SharedCounter(args) ==
    LET length == AsUsize(args[4].num)
    IN  IF ~VecAllocates(length) THEN Panic("capacity overflow")
        ELSE IF ~HkdfExpandOk(length) THEN Throw("HKDF expansion failed")
        ELSE Ok(Buf(length, HkdfExpand(HkdfExtract(args[1], args[2]), args[3],
                                       length + Cardinality(calls))))

hkdf_expand(args) ==
    LET salt   == args[1]
        ikm    == args[2]
        info   == args[3]
        length == AsUsize(args[4].num)
    IN  IF ~VecAllocates(length) THEN Panic("capacity overflow")
        ELSE IF ~HkdfExpandOk(length) THEN Throw("HKDF expansion failed")
        ELSE Ok(Buf(length, HkdfExpand(HkdfExtract(salt, ikm), info, length)))

(***************************************************************************)
(* pbkdf2_derive(password, salt, iterations, outputLength)                 *)
(***************************************************************************)
pbkdf2_derive(args) ==
    LET password      == args[1]
        salt          == args[2]
        iterations    == AsU32(args[3].num)
        output_length == AsUsize(args[4].num)
    IN  IF ~VecAllocates(output_length) THEN Panic("capacity overflow")
        ELSE IF iterations = 0 THEN Panic("unwrap on None")
        ELSE Ok(Buf(output_length,
                    Pbkdf2(iterations, salt, password, output_length)))

(***************************************************************************)
(* Key derivation: callers derive keys of the lengths and with the         *)
(* iteration counts they choose.                                           *)
(***************************************************************************)
MaxKdfCalls == 2

Secrets == {Buf(1, 0), Buf(2, 1)}

Salts == {Buf(0, 0), Buf(1, 1)}

Infos == {Buf(0, 0), Buf(1, 1)}

Lengths == {0, 32, HkdfMaxBlocks * HashLen, HkdfMaxBlocks * HashLen + 1,
            IsizeMax, IsizeMax + 1}

Iterations == {-1, 0, 1, 2}

HkdfExpandCall ==
    /\ Cardinality(calls) < MaxKdfCalls
    /\ \E salt \in Salts, ikm \in Secrets, info \in Infos, n \in Lengths :
          LET args == <<salt, ikm, info, Num(n)>>
          IN  calls' = calls \cup {Call("hkdfExpand", args, hkdf_expand(args))}
    /\ UNCHANGED frame

Pbkdf2DeriveCall ==
    /\ Cardinality(calls) < MaxKdfCalls
    /\ \E pw \in Secrets, salt \in Salts, it \in Iterations, n \in Lengths :
          LET args == <<pw, salt, Num(it), Num(n)>>
          IN  calls' = calls \cup {Call("pbkdf2Derive", args,
                                        pbkdf2_derive(args))}
    /\ UNCHANGED frame

NextKdf == HkdfExpandCall \/ Pbkdf2DeriveCall

SpecKdf == Init /\ [][NextKdf]_vars

\* The code has no error for a bad iteration count or a bad input length.
InvalidIterationCount == "InvalidIterationCount"

InvalidInputLength == "InvalidInputLength"

DerivationLengthExceeded == "HKDF expansion failed"

\* C1: pbkdf2Derive with a zero or negative iteration count ends in the error
\* InvalidIterationCount, never in a panic, and returns no key.
C1_ZeroIterationsIsAnError ==
    \A d \in Done("pbkdf2Derive") :
        d.args[3].num <= 0 => d.out = Throw(InvalidIterationCount)

\* C8: hkdfExpand succeeds with exactly outputLength bytes when outputLength is
\* at most 8160, and fails with DerivationLengthExceeded for every larger
\* outputLength.
C8_HkdfCeiling ==
    \A h \in Done("hkdfExpand") :
        LET n == h.args[4].num
        IN  /\ (0 <= n /\ n <= 8160) => (h.out.kind = "ok" /\ h.out.val.len = n)
            /\ n > 8160 => h.out = Throw(DerivationLengthExceeded)

(***************************************************************************)
(* Fixed-size arguments: callers pass buffers of the required length or    *)
(* of another one.                                                         *)
(***************************************************************************)
MaxLenCalls == 2

AnyLength(n, d) == {Buf(n, d), Buf(n - 1, d)}

EcdhAnyLength ==
    /\ Cardinality(calls) < MaxLenCalls
    /\ \E s \in AnyLength(32, 1), p \in AnyLength(32, 2) :
          calls' = calls \cup {Call("x25519Ecdh", <<s, p>>,
                                    x25519_ecdh(<<s, p>>))}
    /\ UNCHANGED frame

EncryptAnyLength ==
    /\ Cardinality(calls) < MaxLenCalls
    /\ \E k \in AnyLength(32, 1), n \in AnyLength(12, 1) :
          LET args == <<k, n, Buf(1, 1), Buf(0, 0)>>
          IN  calls' = calls \cup {Call("aesEncrypt", args, aes_encrypt(args))}
    /\ UNCHANGED frame

DecryptAnyLength ==
    /\ Cardinality(calls) < MaxLenCalls
    /\ \E k \in AnyLength(32, 1), n \in AnyLength(12, 1) :
          LET args == <<k, n, AesGcmEncrypt(Buf(32, 1), Buf(12, 1), Buf(1, 1),
                                            EmptyAad), Buf(0, 0)>>
          IN  calls' = calls \cup {Call("aesDecrypt", args, aes_decrypt(args))}
    /\ UNCHANGED frame

SignAnyLength ==
    /\ Cardinality(calls) < MaxLenCalls
    /\ \E kp \in AnyLength(64, HalfSpace + Ed25519PublicKey(1)),
          m \in Messages :
          calls' = calls \cup {Call("ed25519Sign", <<kp, m>>,
                                    ed25519_sign(<<kp, m>>))}
    /\ UNCHANGED frame

VerifyAnyLength ==
    /\ Cardinality(calls) < MaxLenCalls
    /\ \E pk \in AnyLength(32, Ed25519PublicKey(1)), sig \in AnyLength(64, 0) :
          LET args == <<pk, Buf(1, 1), sig>>
          IN  calls' = calls \cup {Call("ed25519Verify", args,
                                        ed25519_verify(args))}
    /\ UNCHANGED frame

NextLen ==
    \/ EcdhAnyLength
    \/ EncryptAnyLength
    \/ DecryptAnyLength
    \/ SignAnyLength
    \/ VerifyAnyLength

SpecLen == Init /\ [][NextLen]_vars

\* The byte length each fixed-size argument must have, by position.
RequiredLengths(op) ==
    CASE op = "x25519Ecdh"    -> <<32, 32>>
      [] op = "aesEncrypt"    -> <<32, 12>>
      [] op = "aesDecrypt"    -> <<32, 12>>
      [] op = "ed25519Sign"   -> <<64>>
      [] op = "ed25519Verify" -> <<32, 0, 64>>

WrongLength(c) ==
    \E i \in DOMAIN RequiredLengths(c.op) :
        RequiredLengths(c.op)[i] # 0 /\ c.args[i].len # RequiredLengths(c.op)[i]

\* C2: a call with a fixed-size argument of another length fails with the
\* error InvalidInputLength and never crashes.
C2_WrongLengthIsAnError ==
    \A c \in calls : WrongLength(c) => c.out = Throw(InvalidInputLength)

(***************************************************************************)
(* Concurrent callers.  Each thread invokes an exported function and later *)
(* receives its outcome; other threads' calls begin and end in between.    *)
(* A completed call records the number of calls completed when it began    *)
(* and its own place in the order of completion.                           *)
(***************************************************************************)
MaxCalls == 3

\* The function main() exports under each name.
Exported(op, args) ==
    CASE op = "x25519Ecdh"    -> x25519_ecdh(args)
      [] op = "hkdfExpand"    -> hkdf_expand(args)
      [] op = "aesEncrypt"    -> aes_encrypt(args)
      [] op = "aesDecrypt"    -> aes_decrypt(args)
      [] op = "ed25519Sign"   -> ed25519_sign(args)
      [] op = "ed25519Verify" -> ed25519_verify(args)
      [] op = "pbkdf2Derive"  -> pbkdf2_derive(args)

InFlight == {t \in Threads : frame[t] # Idle}

CanInvoke(t) ==
    /\ frame[t] = Idle
    /\ Cardinality(calls) + Cardinality(InFlight) < MaxCalls

Begin(t, op, args) ==
    [frame EXCEPT ![t] =
        [op |-> op, args |-> args, began |-> Cardinality(calls)]]

InvokeX25519Ecdh(t) ==
    /\ CanInvoke(t)
    /\ frame' = Begin(t, "x25519Ecdh", <<Buf(32, 1), Buf(32, 2)>>)
    /\ UNCHANGED calls

InvokeHkdfExpand(t) ==
    /\ CanInvoke(t)
    /\ \E n \in {32, HkdfMaxBlocks * HashLen + 1} :
          frame' = Begin(t, "hkdfExpand",
                         <<Buf(1, 1), Buf(1, 0), Buf(1, 1), Num(n)>>)
    /\ UNCHANGED calls

InvokeAesEncrypt(t) ==
    /\ CanInvoke(t)
    /\ frame' = Begin(t, "aesEncrypt",
                      <<Buf(32, 1), Buf(12, 1), Buf(1, 1), Buf(0, 0)>>)
    /\ UNCHANGED calls

InvokeAesDecrypt(t) ==
    /\ CanInvoke(t)
    /\ \E n \in Nonces :
          frame' = Begin(t, "aesDecrypt",
                         <<Buf(32, 1), n,
                           AesGcmEncrypt(Buf(32, 1), Buf(12, 1), Buf(1, 1),
                                         EmptyAad),
                           Buf(0, 0)>>)
    /\ UNCHANGED calls

InvokeEd25519Sign(t) ==
    /\ CanInvoke(t)
    /\ frame' = Begin(t, "ed25519Sign",
                      <<Buf(64, HalfSpace + Ed25519PublicKey(1)), Buf(1, 1)>>)
    /\ UNCHANGED calls

InvokeEd25519Verify(t) ==
    /\ CanInvoke(t)
    /\ frame' = Begin(t, "ed25519Verify",
                      <<Buf(32, Ed25519PublicKey(1)), Buf(1, 1),
                        Buf(64, Ed25519Sign(
                                  Buf(64, HalfSpace + Ed25519PublicKey(1)),
                                  Buf(1, 1)))>>)
    /\ UNCHANGED calls

InvokePbkdf2Derive(t) ==
    /\ CanInvoke(t)
    /\ \E it \in {0, 2} :
          frame' = Begin(t, "pbkdf2Derive",
                         <<Buf(1, 0), Buf(1, 1), Num(it), Num(32)>>)
    /\ UNCHANGED calls

Return(t) ==
    /\ frame[t] # Idle
    /\ calls' = calls \cup
          {[op     |-> frame[t].op,
            args   |-> frame[t].args,
            out    |-> Exported(frame[t].op, frame[t].args),
            thread |-> t,
            began  |-> frame[t].began,
            seq    |-> Cardinality(calls) + 1]}
    /\ frame' = [frame EXCEPT ![t] = Idle]

Next ==
    \E t \in Threads :
        \/ InvokeX25519Ecdh(t)
        \/ InvokeHkdfExpand(t)
        \/ InvokeAesEncrypt(t)
        \/ InvokeAesDecrypt(t)
        \/ InvokeEd25519Sign(t)
        \/ InvokeEd25519Verify(t)
        \/ InvokePbkdf2Derive(t)
        \/ Return(t)

Spec == Init /\ [][Next]_vars

====
